---- MODULE Spec2Model ----
(***************************************************************************)
(* The dependency graph engine of XcodeLibPlot.py: class Graph with its    *)
(* builders (add_target, add_lib, add_edge), apply_filters, mark_cycles    *)
(* (Tarjan SCC) and the exports that read the graph.                       *)
(*                                                                         *)
(* Python values are modelled as follows.                                  *)
(*   str            a TLA+ string; None is the distinguished string None   *)
(*   set            a TLA+ set; every iteration over a Python set takes an *)
(*                  arbitrary order, chosen by the action that iterates    *)
(*   dict name->v   a function whose DOMAIN is the key set                 *)
(*   lib_meta[n]    a record [ext, is_system]; ext = None stands for a     *)
(*                  dict without the key "ext" (add_lib stores "ext" only  *)
(*                  when it is not None, and always stores "is_system")    *)
(*   re.Pattern     the set of names in which the pattern finds a match    *)
(***************************************************************************)
EXTENDS Integers, Sequences, FiniteSets, TLC

VARIABLES
    target_nodes,       \* Graph.target_nodes : Set[str]
    lib_nodes,          \* Graph.lib_nodes : Set[str]
    edges,              \* Graph.edges : Set[Tuple[str, str]]
    annotations,        \* Graph.annotations : Dict[str, str]
    lib_meta,           \* Graph.lib_meta : Dict[str, Dict]
    cycle_nodes,        \* Graph.cycle_nodes : Set[str]
    cycle_edges,        \* Graph.cycle_edges : Set[Tuple[str, str]]
    cycle_components,   \* Graph.cycle_components : List[List[str]]
    last,               \* history: the name of the last operation called
    log,                \* history: the builder calls made so far, in order
    pre,                \* history: the graph as it was when the last apply_filters began
    fargs,              \* history: the arguments of the last apply_filters
    out,                \* what the last query or export returned or wrote
    args,               \* main: the parsed command line (argparse.Namespace)
    exit_code,          \* main: exit_code, then the status passed to sys.exit
    pc,                 \* main: the stage the run has reached
    made                \* history: the apply_filters and mark_cycles calls main has made

vars == <<target_nodes, lib_nodes, edges, annotations, lib_meta,
          cycle_nodes, cycle_edges, cycle_components, last, log, pre, fargs,
          out, args, exit_code, pc, made>>

-----------------------------------------------------------------------------
(* Bounds of the model *)

MaxEdges == 2

MaxCalls == 3

MaxCycleEdges == 4

MaxAnyOrderEdges == 1

MaxViewEdges == 3

MaxMainEdges == 2

-----------------------------------------------------------------------------
(* Python values *)

None == "<None>"

\* Python truthiness of an Optional[str]: None and "" are false.
Truthy(s) == s # None /\ s # ""

\* str.lower() on the strings the model uses.
Lower(s) ==
    CASE s = "HTTP://repo" -> "http://repo"
      [] s = "SPM" -> "spm"
      [] s = ".FRAMEWORK" -> ".framework"
      [] s = "Framework" -> "framework"
      [] s = "App" -> "app"
      [] s = "Core" -> "core"
      [] s = "LibA" -> "liba"
      [] OTHER -> s

\* '"http" in s' for a lower-cased subtitle.
ContainsHttp(s) == s \in {"http://repo"}

\* Code point order of the names the model uses (sorted(), str comparison).
StrRank(s) ==
    CASE s = "App" -> 1
      [] s = "Core" -> 2
      [] s = "LibA" -> 3
      [] s = "X" -> 4
      [] s = "Y" -> 5
      [] s = "Z" -> 6
      [] s = "app" -> 7
      [] s = "core" -> 8
      [] s = "liba" -> 9
      [] OTHER -> 0

Min(a, b) == IF a < b THEN a ELSE b

\* d[k] = v on a dict.
DictSet(d, k, v) == [x \in (DOMAIN d) \cup {k} |-> IF x = k THEN v ELSE d[x]]

\* {k: v for k, v in d.items() if k in S}
DictRestrict(d, S) == [x \in (DOMAIN d) \cap S |-> d[x]]

EmptyDict == [x \in {} |-> None]

RECURSIVE Perms(_)
\* Every order in which a Python set can be iterated.
Perms(S) ==
    IF S = {} THEN {<<>>}
    ELSE UNION {{<<x>> \o p : p \in Perms(S \ {x})} : x \in S}

RECURSIVE SortedNames(_)
\* sorted(S) for a set of names.
SortedNames(S) ==
    IF S = {} THEN <<>>
    ELSE LET m == CHOOSE x \in S : \A y \in S : StrRank(x) <= StrRank(y)
         IN <<m>> \o SortedNames(S \ {m})

SeqToSet(s) == {s[i] : i \in 1..Len(s)}

-----------------------------------------------------------------------------
(* class Graph *)

\* Graph.__init__
EmptyGraph ==
    [target_nodes |-> {}, lib_nodes |-> {}, edges |-> {},
     annotations |-> EmptyDict, lib_meta |-> EmptyDict,
     cycle_nodes |-> {}, cycle_edges |-> {}, cycle_components |-> <<>>]

\* The Graph object as the state variables hold it.
G ==
    [target_nodes |-> target_nodes, lib_nodes |-> lib_nodes, edges |-> edges,
     annotations |-> annotations, lib_meta |-> lib_meta,
     cycle_nodes |-> cycle_nodes, cycle_edges |-> cycle_edges,
     cycle_components |-> cycle_components]

SetGraph(h) ==
    /\ target_nodes' = h.target_nodes
    /\ lib_nodes' = h.lib_nodes
    /\ edges' = h.edges
    /\ annotations' = h.annotations
    /\ lib_meta' = h.lib_meta
    /\ cycle_nodes' = h.cycle_nodes
    /\ cycle_edges' = h.cycle_edges
    /\ cycle_components' = h.cycle_components

\* Graph.add_target
add_target(g, name) ==
    [g EXCEPT !.target_nodes = @ \cup {name}]

\* Mutant of MergeIsSystem: "!=" written for "or".
MergeIsSystem_Toggle(has, old, is_system) ==
    IF ~has THEN is_system ELSE (old # is_system)

\* add_lib, lines 224-227: is_system accumulates by "or".
MergeIsSystem(has, old, is_system) ==
    IF ~has THEN is_system ELSE (old \/ is_system)

\* add_lib, lines 222-223: "ext" is stored whenever the argument is not None.
MergeExt(old, ext) ==
    IF ext # None THEN ext ELSE old

\* Graph.add_lib
add_lib(g, name, subtitle, is_system, ext) ==
    LET has == name \in DOMAIN g.lib_meta
        oldExt == IF has THEN g.lib_meta[name].ext ELSE None
        oldSys == IF has THEN g.lib_meta[name].is_system ELSE FALSE
        meta == [ext |-> MergeExt(oldExt, ext),
                 is_system |-> MergeIsSystem(has, oldSys, is_system)]
    IN [g EXCEPT !.lib_nodes = @ \cup {name},
                 !.annotations = IF Truthy(subtitle) THEN DictSet(@, name, subtitle) ELSE @,
                 !.lib_meta = DictSet(@, name, meta)]

\* Mutant of add_edge: only None is refused, an empty name passes.
add_edge_EmptyNamePasses(g, src, dst) ==
    IF src # None /\ dst # None
    THEN [g EXCEPT !.edges = @ \cup {<<src, dst>>}]
    ELSE g

\* Graph.add_edge
add_edge(g, src, dst) ==
    IF Truthy(src) /\ Truthy(dst)
    THEN [g EXCEPT !.edges = @ \cup {<<src, dst>>}]
    ELSE g

-----------------------------------------------------------------------------
(* Graph.apply_filters *)

\* apply_filters.match_any: any(p.search(text) for p in patterns)
match_any(patterns, text) ==
    \E i \in 1..Len(patterns) : text \in patterns[i]

\* Mutant of target_allowed: the include test comes first, a match allows the name.
target_allowed_IncludeFirst(a, t) ==
    IF a.include_targets # <<>> /\ match_any(a.include_targets, t) THEN TRUE
    ELSE IF a.exclude_targets # <<>> /\ match_any(a.exclude_targets, t) THEN FALSE
    ELSE a.include_targets = <<>>

\* apply_filters.target_allowed
target_allowed(a, t) ==
    IF a.exclude_targets # <<>> /\ match_any(a.exclude_targets, t) THEN FALSE
    ELSE IF a.include_targets # <<>> THEN match_any(a.include_targets, t)
    ELSE TRUE

\* lib_allowed, lines 279-282: the name tests, exclusion first.
lib_name_allowed(a, l) ==
    IF a.exclude_libs # <<>> /\ match_any(a.exclude_libs, l) THEN FALSE
    ELSE IF a.include_libs # <<>> /\ ~match_any(a.include_libs, l) THEN FALSE
    ELSE TRUE

\* lib_allowed, line 287: the subtitle of l holds a repository URL.
has_url_subtitle(anns, l) ==
    /\ l \in DOMAIN anns
    /\ Truthy(anns[l])
    /\ ContainsHttp(Lower(anns[l]))

\* Mutant of ext_key_of: a URL subtitle makes the key "spm" whatever ext is stored.
ext_key_of_UrlAlwaysSpm(lm, anns, l) ==
    LET stored == IF l \in DOMAIN lm THEN lm[l].ext ELSE None
        ext == Lower(IF Truthy(stored) THEN stored ELSE "")
    IN IF has_url_subtitle(anns, l) THEN "spm"
       ELSE IF stored = "spm" THEN "spm" ELSE ext

\* lib_allowed, lines 283-293: the suffix key l is judged by.
ext_key_of(lm, anns, l) ==
    LET stored == IF l \in DOMAIN lm THEN lm[l].ext ELSE None
        ext == Lower(IF Truthy(stored) THEN stored ELSE "")
    IN IF has_url_subtitle(anns, l)
       THEN IF stored = None THEN "spm" ELSE ext
       ELSE IF stored = "spm" THEN "spm" ELSE ext

\* lib_allowed, lines 294-297: the suffix tests.
suffix_allowed(a, key) ==
    LET inc_suf == {Lower(x) : x \in a.include_suffixes}
        exc_suf == {Lower(x) : x \in a.exclude_suffixes}
    IN IF inc_suf # {} /\ key \notin inc_suf THEN FALSE
       ELSE IF exc_suf # {} /\ key \in exc_suf THEN FALSE
       ELSE TRUE

\* Mutant of lib_allowed: the inferred kind is stored under another name than the
\* key the library was judged by.
lib_allowed_StoresOtherExt(lm, anns, a, l) ==
    IF ~lib_name_allowed(a, l) THEN [ok |-> FALSE, lib_meta |-> lm]
    ELSE LET infer == has_url_subtitle(anns, l) /\ l \in DOMAIN lm /\ lm[l].ext = None
             lm2 == IF infer THEN [lm EXCEPT ![l].ext = "package"] ELSE lm
         IN [ok |-> suffix_allowed(a, ext_key_of(lm, anns, l)), lib_meta |-> lm2]

\* apply_filters.lib_allowed: the verdict, and lib_meta as the call leaves it (a
\* library with a URL subtitle and no ext gets the ext "spm", lines 288-291; a
\* library without a metadata record cannot occur, add_lib writes one).
lib_allowed(lm, anns, a, l) ==
    IF ~lib_name_allowed(a, l) THEN [ok |-> FALSE, lib_meta |-> lm]
    ELSE LET infer == has_url_subtitle(anns, l) /\ l \in DOMAIN lm /\ lm[l].ext = None
             lm2 == IF infer THEN [lm EXCEPT ![l].ext = "spm"] ELSE lm
         IN [ok |-> suffix_allowed(a, ext_key_of(lm, anns, l)), lib_meta |-> lm2]

\* Mutant of filter_edge: the test of lib_allowed is left out.
filter_edge_NoLibTest(g, a, acc, e) ==
    IF e[1] \in g.target_nodes /\ ~target_allowed(a, e[1]) THEN acc
    ELSE IF e[2] \in g.target_nodes /\ ~target_allowed(a, e[2]) THEN acc
    ELSE [new_edges |-> acc.new_edges \cup {e}, lib_meta |-> acc.lib_meta]

\* apply_filters, lines 302-308: one turn of the loop over self.edges, on the
\* accumulator [new_edges, lib_meta].
filter_edge(g, a, acc, e) ==
    IF e[1] \in g.target_nodes /\ ~target_allowed(a, e[1]) THEN acc
    ELSE IF e[2] \in g.target_nodes /\ ~target_allowed(a, e[2]) THEN acc
    ELSE IF e[2] \in g.lib_nodes
         THEN LET r == lib_allowed(acc.lib_meta, g.annotations, a, e[2])
              IN IF r.ok
                 THEN [new_edges |-> acc.new_edges \cup {e}, lib_meta |-> r.lib_meta]
                 ELSE [new_edges |-> acc.new_edges, lib_meta |-> r.lib_meta]
         ELSE [new_edges |-> acc.new_edges \cup {e}, lib_meta |-> acc.lib_meta]

RECURSIVE filter_edges(_, _, _, _)
\* apply_filters, lines 300-309: the loop over self.edges, iterated in the order eo.
filter_edges(g, a, acc, eo) ==
    IF eo = <<>> THEN acc
    ELSE filter_edges(g, a, filter_edge(g, a, acc, Head(eo)), Tail(eo))

\* Mutant of kept_targets_of: a target is kept only as the source of an edge.
kept_targets_SourcesOnly(g, a, new_edges) ==
    {e[1] : e \in {x \in new_edges : x[1] \in g.target_nodes}}
    \cup (IF a.keep_isolated_included_targets
          THEN {t \in g.target_nodes : target_allowed(a, t)}
          ELSE {})

\* Mutant of kept_targets_of: keep_isolated_included_targets is ignored.
kept_targets_NoIsolated(g, a, new_edges) ==
    {e[1] : e \in {x \in new_edges : x[1] \in g.target_nodes}}
    \cup {e[2] : e \in {x \in new_edges : x[2] \in g.target_nodes}}

\* apply_filters, lines 311-323: the targets kept.
kept_targets_of(g, a, new_edges) ==
    {e[1] : e \in {x \in new_edges : x[1] \in g.target_nodes}}
    \cup {e[2] : e \in {x \in new_edges : x[2] \in g.target_nodes}}
    \cup (IF a.keep_isolated_included_targets
          THEN {t \in g.target_nodes : target_allowed(a, t)}
          ELSE {})

\* Mutant of kept_libs_of: every library of the graph is kept.
kept_libs_All(g, new_edges) ==
    g.lib_nodes

\* apply_filters, lines 312-319: the libraries kept.
kept_libs_of(g, new_edges) ==
    {e[2] : e \in {x \in new_edges : x[2] \in g.lib_nodes}}

\* Mutant of apply_filters: the annotations of dropped libraries are kept.
apply_filters_KeepAnnotations(g, a, eo) ==
    LET acc == filter_edges(g, a, [new_edges |-> {}, lib_meta |-> g.lib_meta], eo)
        kept_targets == kept_targets_of(g, a, acc.new_edges)
        kept_libs == kept_libs_of(g, acc.new_edges)
    IN [g EXCEPT !.edges = acc.new_edges,
                 !.target_nodes = kept_targets,
                 !.lib_nodes = kept_libs,
                 !.lib_meta = DictRestrict(acc.lib_meta, kept_libs)]

\* Graph.apply_filters, with self.edges iterated in the order eo.
apply_filters(g, a, eo) ==
    LET acc == filter_edges(g, a, [new_edges |-> {}, lib_meta |-> g.lib_meta], eo)
        kept_targets == kept_targets_of(g, a, acc.new_edges)
        kept_libs == kept_libs_of(g, acc.new_edges)
    IN [g EXCEPT !.edges = acc.new_edges,
                 !.target_nodes = kept_targets,
                 !.lib_nodes = kept_libs,
                 !.lib_meta = DictRestrict(acc.lib_meta, kept_libs),
                 !.annotations = DictRestrict(g.annotations, kept_libs)]

-----------------------------------------------------------------------------
(* Graph.mark_cycles *)

RECURSIVE edge_keys(_, _)
\* _build_adjacency, lines 237-239: the keys in the order the loop over the edges
\* inserts them.
edge_keys(keys, eo) ==
    IF eo = <<>> THEN keys
    ELSE LET a == Head(eo)[1]
             b == Head(eo)[2]
             k1 == IF a \in SeqToSet(keys) THEN keys ELSE Append(keys, a)
             k2 == IF b \in SeqToSet(k1) THEN k1 ELSE Append(k1, b)
         IN edge_keys(k2, Tail(eo))

RECURSIVE node_keys(_, _)
\* _build_adjacency, lines 240-241: the nodes no edge names are inserted last.
node_keys(keys, no) ==
    IF no = <<>> THEN keys
    ELSE node_keys(IF Head(no) \in SeqToSet(keys) THEN keys ELSE Append(keys, Head(no)),
                   Tail(no))

\* Graph._build_adjacency: the dict, as its key order (adj.keys()) and its values.
build_adjacency(g, eo, no) ==
    LET keys == node_keys(edge_keys(<<>>, eo), no)
    IN [keys |-> keys,
        adj |-> [v \in SeqToSet(keys) |-> {e[2] : e \in {x \in g.edges : x[1] = v}}]]

\* The key orders adj.keys() can have, over the iteration orders of self.edges and
\* of self.target_nodes | self.lib_nodes.
adjacency_orders(g) ==
    {build_adjacency(g, eo, no) :
         eo \in Perms(g.edges), no \in Perms(g.target_nodes \cup g.lib_nodes)}

RECURSIVE neighbour_orders(_, _)
\* For every node of D an order in which "for w in adj[v]" iterates the set adj[v].
neighbour_orders(D, adj) ==
    IF D = {} THEN {EmptyDict}
    ELSE LET v == CHOOSE x \in D : TRUE
         IN {DictSet(f, v, p) : f \in neighbour_orders(D \ {v}, adj), p \in Perms(adj[v])}

\* strongconnect, lines 351 and 353: low[v] = min(low[v], x)
lower_low(st, v, x) ==
    [st EXCEPT !.low[v] = Min(@, x)]

\* Mutant of seen_neighbour: the test "w in onstack" is left out.
seen_neighbour_AnyVisited(st, v, w) ==
    lower_low(st, v, st.indices[w])

\* strongconnect, lines 352-353: a visited neighbour w lowers low[v] only while it
\* is on the stack.
seen_neighbour(st, v, w) ==
    IF w \in st.onstack THEN lower_low(st, v, st.indices[w]) ELSE st

\* strongconnect, lines 355-363: v is a root; pop its component off the stack
\* (comp lists the nodes in the order they are popped).
pop_component(st, v) ==
    LET n == Len(st.stack)
        i == CHOOSE k \in 1..n : st.stack[k] = v
        comp == [j \in 1..(n - i + 1) |-> st.stack[n - j + 1]]
    IN [st EXCEPT !.stack = SubSeq(st.stack, 1, i - 1),
                  !.onstack = @ \ SeqToSet(comp),
                  !.sccs = Append(@, comp)]

RECURSIVE strongconnect(_, _, _, _)
RECURSIVE visit_neighbours(_, _, _, _, _)
\* strongconnect, lines 348-353: the loop over adj[v], ws being what is left of it.
visit_neighbours(v, ws, st, adj, wo) ==
    IF ws = <<>> THEN st
    ELSE LET w == Head(ws)
             st2 == IF w \notin DOMAIN st.indices
                    THEN LET s == strongconnect(w, st, adj, wo)
                         IN lower_low(s, v, s.low[w])
                    ELSE seen_neighbour(st, v, w)
         IN visit_neighbours(v, Tail(ws), st2, adj, wo)

\* mark_cycles.strongconnect
strongconnect(v, st, adj, wo) ==
    LET st1 == [index |-> st.index + 1,
                indices |-> DictSet(st.indices, v, st.index),
                low |-> DictSet(st.low, v, st.index),
                stack |-> Append(st.stack, v),
                onstack |-> st.onstack \cup {v},
                sccs |-> st.sccs]
        st2 == visit_neighbours(v, wo[v], st1, adj, wo)
    IN IF st2.low[v] = st2.indices[v] THEN pop_component(st2, v) ELSE st2

RECURSIVE tarjan(_, _, _, _)
\* mark_cycles, lines 365-367: the loop over adj.keys().
tarjan(keys, st, adj, wo) ==
    IF keys = <<>> THEN st
    ELSE tarjan(Tail(keys),
                IF Head(keys) \notin DOMAIN st.indices
                THEN strongconnect(Head(keys), st, adj, wo)
                ELSE st,
                adj, wo)

\* Mutant of is_cycle: the self-loop test is left out.
is_cycle_AnyComponent(comp, adj) ==
    Len(comp) >= 1

\* mark_cycles, lines 375-381: is_cycle
is_cycle(comp, adj) ==
    IF Len(comp) > 1 THEN TRUE
    ELSE IF Len(comp) = 1 THEN comp[1] \in adj[comp[1]]
    ELSE FALSE

\* Mutant of component_edges: "or" written for "and".
component_edges_Touching(comp_set, es) ==
    {e \in es : e[1] \in comp_set \/ e[2] \in comp_set}

\* mark_cycles, lines 386-388: the edges inside one component.
component_edges(comp_set, es) ==
    {e \in es : e[1] \in comp_set /\ e[2] \in comp_set}

RECURSIVE cycle_list(_, _)
\* mark_cycles, lines 373-384: cycle_components, the cycles in the order of sccs,
\* each sorted.
cycle_list(sccs, adj) ==
    IF sccs = <<>> THEN <<>>
    ELSE (IF is_cycle(Head(sccs), adj)
          THEN <<SortedNames(SeqToSet(Head(sccs)))>>
          ELSE <<>>) \o cycle_list(Tail(sccs), adj)

\* Graph.mark_cycles, on the adjacency dict ad (keys in iteration order) and with
\* the neighbour sets iterated in the orders wo.
mark_cycles(g, ad, wo) ==
    LET st0 == [index |-> 0, indices |-> EmptyDict, low |-> EmptyDict,
                stack |-> <<>>, onstack |-> {}, sccs |-> <<>>]
        st == tarjan(ad.keys, st0, ad.adj, wo)
        comps == cycle_list(st.sccs, ad.adj)
    IN [g EXCEPT !.cycle_components = comps,
                 !.cycle_nodes = UNION {SeqToSet(comps[i]) : i \in 1..Len(comps)},
                 !.cycle_edges =
                     UNION {component_edges(SeqToSet(comps[i]), g.edges) :
                                i \in 1..Len(comps)}]

-----------------------------------------------------------------------------
(* Queries and exports *)

\* Mutant of lib_in_degree: the source of an edge need not be a target.
lib_in_degree_AnySource(g, lib) ==
    Cardinality({e \in g.edges : e[2] = lib})

\* Graph.lib_in_degree (self.edges is a set: the sum counts distinct edges)
lib_in_degree(g, lib) ==
    Cardinality({e \in g.edges : e[2] = lib /\ e[1] \in g.target_nodes})

\* Tuple comparison of two edges, as sorted() compares them.
EdgeLess(e, f) ==
    \/ StrRank(e[1]) < StrRank(f[1])
    \/ (e[1] = f[1] /\ StrRank(e[2]) < StrRank(f[2]))

RECURSIVE SortedEdges(_)
\* sorted(S) for a set of edges.
SortedEdges(S) ==
    IF S = {} THEN <<>>
    ELSE LET m == CHOOSE x \in S : \A y \in S \ {x} : EdgeLess(x, y)
         IN <<m>> \o SortedEdges(S \ {m})

\* export_json, lines 725-731: the record of one library.
library_record(g, name) ==
    [name |-> name,
     is_system |-> IF name \in DOMAIN g.lib_meta THEN g.lib_meta[name].is_system ELSE FALSE,
     ext |-> IF name \in DOMAIN g.lib_meta THEN g.lib_meta[name].ext ELSE None,
     subtitle |-> IF name \in DOMAIN g.annotations THEN g.annotations[name] ELSE None,
     in_degree |-> lib_in_degree(g, name)]

\* export_json: the payload, less the clock, the root path and the echoed options;
\* export_cycles_summary writes the same components, line CYCLE_i being entry i.
export_json(g) ==
    LET libs == SortedNames(g.lib_nodes)
    IN [has_cycles |-> g.cycle_components # <<>>,
        cycles_count |-> Len(g.cycle_components),
        targets |-> SortedNames(g.target_nodes),
        libraries |-> [i \in 1..Len(libs) |-> library_record(g, libs[i])],
        edges |-> SortedEdges(g.edges),
        components |-> g.cycle_components,
        cycle_edges |-> SortedEdges(g.cycle_edges)]

\* Graph.targets_linking_lib
targets_linking_lib(g, lib) ==
    {e[1] : e \in {x \in g.edges : x[2] = lib /\ x[1] \in g.target_nodes}}

\* Graph.libs_linked_by_targets
libs_linked_by_targets(g, targets) ==
    {e[2] : e \in {x \in g.edges : x[1] \in targets /\ x[2] \in g.lib_nodes}}

\* One node statement of a DOT text: the node, the drawing style its attributes give
\* it, and the subtitle on its label (None when the label is the bare name).
NodeLine(name, style, sub) == [name |-> name, style |-> style, sub |-> sub]

\* One edge statement of a DOT text.
EdgeLine(a, b, style) == [from |-> a, to |-> b, style |-> style]

\* self.annotations.get(l), kept on the label only when it is truthy.
label_sub(g, l) ==
    IF l \in DOMAIN g.annotations /\ Truthy(g.annotations[l]) THEN g.annotations[l] ELSE None

\* bool(self.lib_meta.get(l, {}).get("is_system"))
meta_is_system(g, l) == l \in DOMAIN g.lib_meta /\ g.lib_meta[l].is_system

\* to_dot, lines 423-441, and to_dot_framework_view, lines 520-532: a library node.
lib_line(g, l, highlight_cycles, system_highlight) ==
    NodeLine(l,
             IF highlight_cycles /\ l \in g.cycle_nodes THEN "cycle"
             ELSE IF system_highlight /\ meta_is_system(g, l) THEN "libsys"
             ELSE "lib3p",
             label_sub(g, l))

\* Mutant of target_line: a target is never drawn as a cycle node.
target_line_NeverCyclic(g, t, highlight_cycles) ==
    NodeLine(t, "target", None)

\* to_dot, lines 409-418, and to_dot_framework_view, lines 512-517: a target node.
target_line(g, t, highlight_cycles) ==
    NodeLine(t, IF highlight_cycles /\ t \in g.cycle_nodes THEN "cycle" ELSE "target", None)

\* An edge statement: in the cycle colour when cycles are highlighted and the edge
\* is in cycle_edges, else in the style of its section.
edge_line(g, e, highlight_cycles, style) ==
    EdgeLine(e[1], e[2], IF highlight_cycles /\ e \in g.cycle_edges THEN "cycle" ELSE style)

\* to_dot_framework_view, lines 497-509: the node of the focus library.
focus_line(g, framework, highlight_cycles, system_highlight) ==
    NodeLine(framework,
             IF highlight_cycles /\ framework \in g.cycle_nodes THEN "cycle"
             ELSE IF system_highlight /\ meta_is_system(g, framework) THEN "focus_sys"
             ELSE "focus",
             label_sub(g, framework))

\* to_dot_framework_view: the DOT text, section by section in the order the lines
\* are appended, less the fonts, the colour values and the clock.
framework_view_text(g, framework, highlight_cycles, system_highlight, include_target_deps, include_peer_libs) ==
    LET targets == targets_linking_lib(g, framework)
        peer_libs == IF include_peer_libs /\ targets # {}
                     THEN libs_linked_by_targets(g, targets) \ {framework}
                     ELSE {}
        ts == SortedNames(targets)
        ps == SortedNames(peer_libs)
        tt == SortedEdges({e \in g.edges :
                              /\ e[1] \in targets /\ e[2] \in targets
                              /\ e[1] \in g.target_nodes /\ e[2] \in g.target_nodes})
        pe == SortedEdges({e \in g.edges : e[1] \in targets /\ e[2] \in peer_libs})
    IN [title_targets |-> Cardinality(targets),
        focus |-> focus_line(g, framework, highlight_cycles, system_highlight),
        targets |-> [i \in 1..Len(ts) |-> target_line(g, ts[i], highlight_cycles)],
        peers |-> [i \in 1..Len(ps) |->
                       lib_line(g, ps[i], highlight_cycles, system_highlight)],
        focus_edges |-> [i \in 1..Len(ts) |->
                             edge_line(g, <<ts[i], framework>>, highlight_cycles, "plain")],
        target_edges |-> IF include_target_deps
                         THEN [i \in 1..Len(tt) |->
                                   edge_line(g, tt[i], highlight_cycles, "tt")]
                         ELSE <<>>,
        peer_edges |-> IF include_peer_libs /\ peer_libs # {}
                       THEN [i \in 1..Len(pe) |->
                                 edge_line(g, pe[i], highlight_cycles, "peer")]
                       ELSE <<>>]

\* Mutant of to_dot_framework_view: the subtitle is read with pop for get.
to_dot_framework_view_PopSubtitle(g, framework, highlight_cycles, system_highlight, include_target_deps, include_peer_libs) ==
    [text |-> framework_view_text(g, framework, highlight_cycles, system_highlight,
                                  include_target_deps, include_peer_libs),
     self |-> [g EXCEPT !.annotations =
                            DictRestrict(@, (DOMAIN @) \ {framework})]]

\* Graph.to_dot_framework_view: the text returned, and the graph as the call leaves
\* it (the method reads the fields and assigns none).
to_dot_framework_view(g, framework, highlight_cycles, system_highlight, include_target_deps, include_peer_libs) ==
    [text |-> framework_view_text(g, framework, highlight_cycles, system_highlight,
                                  include_target_deps, include_peer_libs),
     self |-> g]

\* Graph.to_dot: the text returned, less the fonts, the colour values, the clock and
\* the legend, and the graph as the call leaves it.
to_dot(g, highlight_cycles, system_highlight) ==
    LET ts == SortedNames(g.target_nodes)
        ls == SortedNames(g.lib_nodes)
        es == SortedEdges(g.edges)
    IN [text |->
            [cycles_part |-> g.cycle_components # <<>>,
             targets |-> [i \in 1..Len(ts) |-> target_line(g, ts[i], highlight_cycles)],
             libs |-> [i \in 1..Len(ls) |->
                           lib_line(g, ls[i], highlight_cycles, system_highlight)],
             edges |-> [i \in 1..Len(es) |->
                            edge_line(g, es[i], highlight_cycles, "plain")]],
        self |-> g]

\* export_split_by_framework, line 780: the sort key (-lib_in_degree(l), l.lower())
\* of a orders before that of b.
split_key_less(g, a, b) ==
    \/ lib_in_degree(g, a) > lib_in_degree(g, b)
    \/ /\ lib_in_degree(g, a) = lib_in_degree(g, b)
       /\ StrRank(Lower(a)) < StrRank(Lower(b))

RECURSIVE stable_insert(_, _, _)
\* x put into the sorted list s behind every entry whose key is not greater: sorted()
\* is stable, entries of equal key stay in the order in which they came.
stable_insert(g, s, x) ==
    IF s = <<>> THEN <<x>>
    ELSE IF split_key_less(g, x, Head(s)) THEN <<x>> \o s
    ELSE <<Head(s)>> \o stable_insert(g, Tail(s), x)

RECURSIVE sorted_by_split_key(_, _, _)
\* sorted(graph.lib_nodes, key=...), the set iterated in the order lo; acc is the
\* sorted list of the entries taken so far.
sorted_by_split_key(g, acc, lo) ==
    IF lo = <<>> THEN acc
    ELSE sorted_by_split_key(g, stable_insert(g, acc, Head(lo)), Tail(lo))

\* export_split_by_framework, lines 780-784: libs_sorted.
libs_sorted(g, lo, split_max, split_min_degree) ==
    LET s1 == sorted_by_split_key(g, <<>>, lo)
        s2 == IF split_min_degree > 1
              THEN SelectSeq(s1, LAMBDA l : lib_in_degree(g, l) >= split_min_degree)
              ELSE s1
    IN IF split_max > 0 THEN SubSeq(s2, 1, Min(split_max, Len(s2))) ELSE s2

\* export_split_by_framework, graph.lib_nodes iterated in the order lo: the libraries
\* given a focused view, in order, and the DOT text written for each.
export_split_by_framework(g, lo, highlight_cycles, system_highlight, include_target_deps, include_peer_libs, split_max, split_min_degree) ==
    LET libs == libs_sorted(g, lo, split_max, split_min_degree)
    IN [libs |-> libs,
        views |-> [i \in 1..Len(libs) |->
                       to_dot_framework_view(g, libs[i], highlight_cycles,
                                             system_highlight, include_target_deps,
                                             include_peer_libs).text]]

-----------------------------------------------------------------------------
(* Builder calls as values: the facts an ingestion run feeds to the graph *)

TargetCall(name) ==
    [op |-> "add_target", name |-> name, subtitle |-> None, is_system |-> FALSE,
     ext |-> None, src |-> None, dst |-> None]

LibCall(name, subtitle, is_system, ext) ==
    [op |-> "add_lib", name |-> name, subtitle |-> subtitle, is_system |-> is_system,
     ext |-> ext, src |-> None, dst |-> None]

EdgeCall(src, dst) ==
    [op |-> "add_edge", name |-> None, subtitle |-> None, is_system |-> FALSE,
     ext |-> None, src |-> src, dst |-> dst]

\* The effect of one builder call on a graph.
Apply(g, c) ==
    CASE c.op = "add_target" -> add_target(g, c.name)
      [] c.op = "add_lib" -> add_lib(g, c.name, c.subtitle, c.is_system, c.ext)
      [] c.op = "add_edge" -> add_edge(g, c.src, c.dst)

RECURSIVE Replay(_, _)
\* The graph after a sequence of builder calls made on g.
Replay(g, calls) ==
    IF calls = <<>> THEN g
    ELSE Replay(Apply(g, Head(calls)), Tail(calls))

\* What main leaves untouched between two stages.
NoFilterArgs ==
    [include_targets |-> <<>>, exclude_targets |-> <<>>,
     include_libs |-> <<>>, exclude_libs |-> <<>>,
     include_suffixes |-> {}, exclude_suffixes |-> {},
     keep_isolated_included_targets |-> TRUE]

\* main, lines 838-861: the argparse defaults of the options the model follows.
DefaultArgs ==
    [no_cycle_highlight |-> FALSE, fail_on_cycles |-> FALSE, split_only |-> FALSE,
     split_by_framework |-> FALSE, json_out |-> FALSE,
     exclude_target |-> <<>>, include_suffix |-> <<>>]

\* Graph() : a fresh graph, no call made yet, main not started.
Init ==
    /\ target_nodes = {}
    /\ lib_nodes = {}
    /\ edges = {}
    /\ annotations = EmptyDict
    /\ lib_meta = EmptyDict
    /\ cycle_nodes = {}
    /\ cycle_edges = {}
    /\ cycle_components = <<>>
    /\ last = "init"
    /\ log = <<>>
    /\ pre = EmptyGraph
    /\ fargs = NoFilterArgs
    /\ out = None
    /\ args = DefaultArgs
    /\ exit_code = None
    /\ pc = "start"
    /\ made = [apply_filters |-> 0, mark_cycles |-> 0]

-----------------------------------------------------------------------------
(* SpecBuild: the construction phase alone, every call logged *)

BuildTargetCalls == {TargetCall("App")}

BuildLibCalls ==
    {LibCall("LibA", None, s, e) : s \in BOOLEAN, e \in {None, "", ".framework", "spm"}}
    \cup {LibCall("LibA", sub, FALSE, e) :
              sub \in {"http://repo", "Swift Package"}, e \in {None, "spm"}}

BuildEdgeCalls == {EdgeCall("App", "LibA"), EdgeCall("", "LibA"), EdgeCall("App", None)}

BuildCalls == BuildTargetCalls \cup BuildLibCalls \cup BuildEdgeCalls

\* The history a logged builder call leaves.
Logged(c) ==
    /\ log' = Append(log, c)
    /\ last' = c.op
    /\ UNCHANGED <<pre, fargs, out, args, exit_code, pc, made>>

BuildAddTarget ==
    \E c \in BuildTargetCalls :
        /\ Len(log) < MaxCalls
        /\ SetGraph(add_target(G, c.name))
        /\ Logged(c)

BuildAddLib ==
    \E c \in BuildLibCalls :
        /\ Len(log) < MaxCalls
        /\ SetGraph(add_lib(G, c.name, c.subtitle, c.is_system, c.ext))
        /\ Logged(c)

BuildAddEdge ==
    \E c \in BuildEdgeCalls :
        /\ Len(log) < MaxCalls
        /\ SetGraph(add_edge(G, c.src, c.dst))
        /\ Logged(c)

NextBuild == BuildAddTarget \/ BuildAddLib \/ BuildAddEdge

SpecBuild == Init /\ [][NextBuild]_vars

\* The fields the builders write.
Built(g) == <<g.target_nodes, g.lib_nodes, g.edges, g.annotations, g.lib_meta>>

\* The calls of the log taken in the order p, a permutation of its indices.
Reordered(p) == [i \in 1..Len(log) |-> log[p[i]]]

\* C7: the final graph state does not depend on the order of the builder calls:
\* every reordering of the calls made so far, replayed on a fresh graph, gives the
\* target_nodes, lib_nodes, edges, annotations and lib_meta the graph has now.
C7_OrderIndependent ==
    \A p \in Perms(1..Len(log)) :
        Built(Replay(EmptyGraph, Reordered(p))) = Built(G)

\* C8: registration is idempotent: a call that repeats the call before it leaves the
\* graph as that call left it, and from every reachable graph every builder call made
\* twice in a row gives the state it gives when made once.
C8_Idempotent ==
    /\ (Len(log) >= 2 /\ log[Len(log)] = log[Len(log) - 1])
           => Built(G) = Built(Replay(EmptyGraph, SubSeq(log, 1, Len(log) - 1)))
    /\ \A c \in BuildCalls : Built(Apply(Apply(G, c), c)) = Built(Apply(G, c))

\* A library registered twice in a row as a system library with an ext and a subtitle.
C8_Witness ==
    /\ Len(log) >= 2
    /\ log[Len(log)] = log[Len(log) - 1]
    /\ log[Len(log)].op = "add_lib"
    /\ "LibA" \in lib_nodes
    /\ lib_meta["LibA"].is_system

\* An ext of unknown kind: omitted (None) or the "" of ext_from_path.
IsUnknownExt(e) == e = None \/ e = ""

RECURSIVE ClaimedExt(_, _)
\* The ext C9 expects for library n after the calls: the ext of a registration is
\* stored unless an ext is stored already and the registration's kind is unknown.
ClaimedExt(calls, n) ==
    IF calls = <<>> THEN None
    ELSE LET c == calls[Len(calls)]
             prev == ClaimedExt(SubSeq(calls, 1, Len(calls) - 1), n)
         IN IF c.op = "add_lib" /\ c.name = n
            THEN IF prev # None /\ IsUnknownExt(c.ext) THEN prev
                 ELSE IF c.ext # None THEN c.ext ELSE prev
            ELSE prev

\* C9: lib_meta[name].is_system is the OR of the is_system arguments passed so far,
\* and a stored ext is not overwritten by a later registration of unknown kind
\* (None or "").
C9_MetadataAccumulates ==
    \A n \in lib_nodes :
        /\ lib_meta[n].is_system =
               (\E i \in 1..Len(log) :
                    log[i].op = "add_lib" /\ log[i].name = n /\ log[i].is_system)
        /\ lib_meta[n].ext = ClaimedExt(log, n)

-----------------------------------------------------------------------------
(* Spec: one Graph, its methods called in any order *)

Names == {"App", "Core", "LibA"}

SpecTargetNames == {"App", "Core"}

SpecLibCalls ==
    {LibCall("LibA", None, TRUE, ".framework"),
     LibCall("LibA", "HTTP://repo", FALSE, None),
     LibCall("Core", None, FALSE, ".framework")}

\* add_edge is also called with an empty name.
SpecEdgeEnds == Names \cup {""}

TargetPatternLists == {<<>>, <<{"App"}>>}

LibPatternLists == {<<>>, <<{"LibA"}>>}

\* The library filters: name patterns, or suffix sets (a suffix in capitals too).
LibFilterChoices ==
    {[include_libs |-> il, exclude_libs |-> el,
      include_suffixes |-> {}, exclude_suffixes |-> {}] :
        il \in LibPatternLists, el \in LibPatternLists}
    \cup {[include_libs |-> <<>>, exclude_libs |-> <<>>,
           include_suffixes |-> {"spm"}, exclude_suffixes |-> {}],
          [include_libs |-> <<>>, exclude_libs |-> <<>>,
           include_suffixes |-> {}, exclude_suffixes |-> {"SPM"}]}

FilterArgs ==
    {[include_targets |-> it, exclude_targets |-> et,
      include_libs |-> lf.include_libs, exclude_libs |-> lf.exclude_libs,
      include_suffixes |-> lf.include_suffixes, exclude_suffixes |-> lf.exclude_suffixes,
      keep_isolated_included_targets |-> k] :
        it \in TargetPatternLists, et \in TargetPatternLists,
        lf \in LibFilterChoices, k \in BOOLEAN}

\* The history a call other than apply_filters leaves.
Called(op) ==
    /\ last' = op
    /\ pre' = EmptyGraph
    /\ fargs' = NoFilterArgs
    /\ UNCHANGED <<log, out, args, exit_code, pc, made>>

AddTarget ==
    \E name \in SpecTargetNames :
        /\ SetGraph(add_target(G, name))
        /\ Called("add_target")

AddLib ==
    \E c \in SpecLibCalls :
        /\ SetGraph(add_lib(G, c.name, c.subtitle, c.is_system, c.ext))
        /\ Called("add_lib")

\* add_edge between any two names, the graph holding at most n edges.
AddEdgeUpTo(n) ==
    \E src \in SpecEdgeEnds, dst \in SpecEdgeEnds :
        /\ Cardinality(add_edge(G, src, dst).edges) <= n
        /\ SetGraph(add_edge(G, src, dst))
        /\ Called("add_edge")

AddEdge == AddEdgeUpTo(MaxAnyOrderEdges)

\* The filters tried when the methods are called in any order: an excluded target,
\* an excluded library or an excluded suffix, isolated targets kept or not.
AnyOrderFilterArgs ==
    {a \in FilterArgs :
        /\ a.include_targets = <<>> /\ a.include_libs = <<>> /\ a.include_suffixes = {}
        /\ (a.exclude_libs = <<>> \/ a.exclude_targets = <<>>)}

ApplyFilters ==
    \E a \in AnyOrderFilterArgs, eo \in Perms(edges) :
        /\ SetGraph(apply_filters(G, a, eo))
        /\ Called("apply_filters")

MarkCycles ==
    \E ad \in adjacency_orders(G) :
        \E wo \in neighbour_orders(DOMAIN ad.adj, ad.adj) :
            /\ SetGraph(mark_cycles(G, ad, wo))
            /\ Called("mark_cycles")

Next == AddTarget \/ AddLib \/ AddEdge \/ ApplyFilters \/ MarkCycles

Spec == Init /\ [][Next]_vars

-----------------------------------------------------------------------------
(* SpecCycles: graphs over three nodes, and mark_cycles *)

CycleNames == {"X", "Y", "Z"}

CycleTargetNames == {"Z"}

CycAddTarget ==
    \E name \in CycleTargetNames :
        /\ SetGraph(add_target(G, name))
        /\ Called("add_target")

CycAddEdge ==
    \E src \in CycleNames, dst \in CycleNames :
        /\ Cardinality(add_edge(G, src, dst).edges) <= MaxCycleEdges
        /\ SetGraph(add_edge(G, src, dst))
        /\ Called("add_edge")

NextCycles == CycAddTarget \/ CycAddEdge \/ MarkCycles

SpecCycles == Init /\ [][NextCycles]_vars

-----------------------------------------------------------------------------
(* SpecFilter: the construction phase, then one apply_filters whose arguments and
   whose graph before the call are kept as history *)

Building == last # "apply_filters"

FilterAddTarget == Building /\ AddTarget

FilterAddLib == Building /\ AddLib

FilterAddEdge == Building /\ AddEdgeUpTo(MaxEdges)

FilterApply ==
    \E a \in FilterArgs, eo \in Perms(edges) :
        /\ Building
        /\ SetGraph(apply_filters(G, a, eo))
        /\ last' = "apply_filters"
        /\ pre' = G
        /\ fargs' = a
        /\ UNCHANGED <<log, out, args, exit_code, pc, made>>

NextFilter == FilterAddTarget \/ FilterAddLib \/ FilterAddEdge \/ FilterApply

SpecFilter == Init /\ [][NextFilter]_vars

\* Every edge of g leads from a registered target to a registered target or library.
WellFormed(g) ==
    \A e \in g.edges :
        e[1] \in g.target_nodes /\ e[2] \in g.target_nodes \cup g.lib_nodes

NoDanglingEdge ==
    \A e \in edges :
        e[1] \in target_nodes \cup lib_nodes /\ e[2] \in target_nodes \cup lib_nodes

\* C1 as stated: after apply_filters, whatever calls built the graph, both endpoints
\* of every edge are in target_nodes or lib_nodes.
C1_NoDanglingEdge_AnyGraph ==
    last = "apply_filters" => NoDanglingEdge

\* C1 as amended: after apply_filters on a graph whose every edge led from a
\* registered target to a registered target or library, both endpoints of every
\* edge are in target_nodes or lib_nodes.
C1_NoDanglingEdge ==
    (last = "apply_filters" /\ WellFormed(pre)) => NoDanglingEdge

\* A well-formed graph with a target-to-target edge, filtered without keeping
\* isolated targets, an edge pruned and an edge kept.
C1_Witness ==
    /\ last = "apply_filters"
    /\ WellFormed(pre)
    /\ ~fargs.keep_isolated_included_targets
    /\ edges # {}
    /\ pre.edges \ edges # {}
    /\ \E e \in edges : e[2] \in target_nodes /\ e[1] # e[2]

\* The verdict of lib_allowed on library l of the graph before the call.
LibAllowedBefore(l) == lib_allowed(pre.lib_meta, pre.annotations, fargs, l).ok

\* C2 as stated: the edges after apply_filters are exactly the edges (a, b) before
\* it with a target_allowed, b target_allowed when b is a target and b lib_allowed
\* when b is a library.
C2_ExactEdgeSet_AnySource ==
    last = "apply_filters" =>
        edges = {e \in pre.edges :
                    /\ target_allowed(fargs, e[1])
                    /\ e[2] \in pre.target_nodes => target_allowed(fargs, e[2])
                    /\ e[2] \in pre.lib_nodes => LibAllowedBefore(e[2])}

\* C2 as amended: the edges after apply_filters are exactly the edges (a, b) before
\* it with a target_allowed when a is a target, b target_allowed when b is a target
\* and b lib_allowed when b is a library.
C2_ExactEdgeSet ==
    last = "apply_filters" =>
        edges = {e \in pre.edges :
                    /\ e[1] \in pre.target_nodes => target_allowed(fargs, e[1])
                    /\ e[2] \in pre.target_nodes => target_allowed(fargs, e[2])
                    /\ e[2] \in pre.lib_nodes => LibAllowedBefore(e[2])}

\* Two edges from a registered target, the one to a library pruned by lib_allowed
\* and the one to a target kept.
C2_Witness ==
    /\ last = "apply_filters"
    /\ \E e \in pre.edges \ edges :
           /\ e[1] \in pre.target_nodes /\ target_allowed(fargs, e[1])
           /\ e[2] \in pre.lib_nodes /\ e[2] \notin pre.target_nodes
    /\ \E e \in edges : e[1] \in pre.target_nodes /\ e[2] \in pre.target_nodes

\* C10: after apply_filters with keep_isolated_included_targets, target_nodes is
\* exactly the set of targets before the call that satisfy target_allowed.
C10_KeepIsolatedTargets ==
    (last = "apply_filters" /\ fargs.keep_isolated_included_targets) =>
        target_nodes = {t \in pre.target_nodes : target_allowed(fargs, t)}

\* App linked only the excluded library LibA: its edge is pruned and App stays, with
\* no edge left, while a target that is not allowed is gone.
C10_Witness ==
    /\ last = "apply_filters"
    /\ fargs.keep_isolated_included_targets
    /\ <<"App", "LibA">> \in pre.edges
    /\ "LibA" \in pre.lib_nodes /\ "LibA" \notin lib_nodes
    /\ "App" \in target_nodes
    /\ \A e \in edges : e[1] # "App" /\ e[2] # "App"
    /\ pre.target_nodes \ target_nodes # {}

-----------------------------------------------------------------------------
(* Claims on mark_cycles, under SpecCycles *)

\* Every node mark_cycles sees: the keys of the adjacency dict.
AllNodes == target_nodes \cup lib_nodes \cup {e[1] : e \in edges} \cup {e[2] : e \in edges}

RECURSIVE ReachableFrom(_)
\* The nodes a directed path of edges leads to from some node of R (R included).
ReachableFrom(R) ==
    LET step == R \cup {e[2] : e \in {x \in edges : x[1] \in R}}
    IN IF step = R THEN R ELSE ReachableFrom(step)

MutuallyReachable(u, v) == v \in ReachableFrom({u}) /\ u \in ReachableFrom({v})

\* The strongly connected component of v, by brute force.
SCC(v) == {w \in AllNodes : MutuallyReachable(v, w)}

InSameComponent(u, v) ==
    \E i \in 1..Len(cycle_components) :
        u \in SeqToSet(cycle_components[i]) /\ v \in SeqToSet(cycle_components[i])

\* C3: after mark_cycles, two distinct nodes are in the same entry of
\* cycle_components iff each is reachable from the other along the edges.
C3_SameComponentIffMutuallyReachable ==
    last = "mark_cycles" =>
        \A u \in AllNodes, v \in AllNodes :
            u # v => (InSameComponent(u, v) <=> MutuallyReachable(u, v))

\* A cycle of two or more nodes found, with an edge that leaves it for a node in
\* no cycle.
C3_Witness ==
    /\ last = "mark_cycles"
    /\ \E i \in 1..Len(cycle_components) : Len(cycle_components[i]) >= 2
    /\ \E e \in edges : e[1] \in cycle_nodes /\ e[2] \notin cycle_nodes

\* C4: after mark_cycles, the recorded components are exactly the strongly connected
\* components with more than one member or with a self-loop; a single node without
\* a self-loop is not in cycle_nodes; the recorded components are pairwise disjoint.
C4_CycleClassification ==
    last = "mark_cycles" =>
        /\ {SeqToSet(cycle_components[i]) : i \in 1..Len(cycle_components)}
               = {SCC(v) : v \in {w \in AllNodes :
                                     Cardinality(SCC(w)) > 1 \/ <<w, w>> \in edges}}
        /\ \A v \in AllNodes :
               (SCC(v) = {v} /\ <<v, v>> \notin edges) => v \notin cycle_nodes
        /\ \A i \in 1..Len(cycle_components), j \in 1..Len(cycle_components) :
               i # j => SeqToSet(cycle_components[i]) \cap SeqToSet(cycle_components[j]) = {}

\* A self-loop recorded as a cycle of one node, beside a node that is in no cycle.
C4_Witness ==
    /\ last = "mark_cycles"
    /\ \E i \in 1..Len(cycle_components) :
           /\ Len(cycle_components[i]) = 1
           /\ <<cycle_components[i][1], cycle_components[i][1]>> \in edges
    /\ \E e \in edges : e[2] \notin cycle_nodes

\* C5: after mark_cycles, cycle_edges is exactly the set of edges whose two endpoints
\* lie in one and the same entry of cycle_components.
C5_CycleEdges ==
    last = "mark_cycles" =>
        cycle_edges = {e \in edges : InSameComponent(e[1], e[2])}

\* Two cycle components and an edge from one to the other that is no cycle edge,
\* beside the two cycle edges X -> Y and Y -> X.
C5_Witness ==
    /\ last = "mark_cycles"
    /\ Len(cycle_components) = 2
    /\ {<<"X", "Y">>, <<"Y", "X">>} \subseteq cycle_edges
    /\ \E e \in edges \ cycle_edges : e[1] \in cycle_nodes /\ e[2] \in cycle_nodes

\* A run over the facts of g whose sets iterate in one fixed order.
reference_run(g) ==
    LET ad == CHOOSE x \in adjacency_orders(g) : TRUE
        wo == CHOOSE x \in neighbour_orders(DOMAIN ad.adj, ad.adj) : TRUE
    IN mark_cycles(g, ad, wo)

\* C6: two runs over the same facts export the same structures, the order of the
\* cycle components included: what this run exports is what a run whose sets
\* iterate in another order exports.
C6_DeterministicExport ==
    last = "mark_cycles" => export_json(G) = export_json(reference_run(G))

-----------------------------------------------------------------------------
(* SpecMain: one run of main, from the command line to sys.exit *)

\* re.compile on the pattern strings the model uses: the names the pattern finds a
\* match in, or re.error.
re_compile(p) ==
    CASE p = "App" -> [ok |-> TRUE, pattern |-> {"App"}]
      [] p = "(" -> [ok |-> FALSE, pattern |-> {}]

RECURSIVE compile_regex_list(_)
\* main.compile_regex_list: a pattern that does not compile is logged and left out.
compile_regex_list(patterns) ==
    IF patterns = <<>> THEN <<>>
    ELSE LET r == re_compile(Head(patterns))
         IN (IF r.ok THEN <<r.pattern>> ELSE <<>>) \o compile_regex_list(Tail(patterns))

\* s.startswith(".") on the suffixes the model uses.
StartsWithDot(s) == s \in {".framework"}

\* main, lines 940-946: the suffixes lower-cased, then given a leading dot unless
\* they are "spm" or have one.
normalize_suffixes(suffixes) ==
    {IF s = "spm" THEN s ELSE IF StartsWithDot(s) THEN s ELSE "." \o s :
         s \in {Lower(x) : x \in SeqToSet(suffixes)}}

\* main, lines 936-956: the arguments of the one apply_filters call.
main_filter_args(a) ==
    [include_targets |-> <<>>,
     exclude_targets |-> compile_regex_list(a.exclude_target),
     include_libs |-> <<>>, exclude_libs |-> <<>>,
     include_suffixes |-> normalize_suffixes(a.include_suffix),
     exclude_suffixes |-> {},
     keep_isolated_included_targets |-> TRUE]

\* export_cycles_summary: what is written to <output>.cycles.txt.
export_cycles_summary(components) ==
    [has_cycles |-> components # <<>>,
     cycles_count |-> Len(components),
     components |-> components]

\* The command lines tried: every combination of the flags, a target pattern that
\* compiles beside one that does not, a suffix in capitals and without its dot.
MainArgs ==
    [no_cycle_highlight : BOOLEAN, fail_on_cycles : BOOLEAN, split_only : BOOLEAN,
     split_by_framework : BOOLEAN, json_out : BOOLEAN,
     exclude_target : {<<>>, <<"(", "App">>},
     include_suffix : {<<>>, <<"Framework">>, <<"SPM">>}]

MainLibCalls == {LibCall("LibA", None, TRUE, ".framework")}

\* The exports main makes of the graph.
ExportOps == {"export_cycles_summary", "export_json", "export_split_by_framework", "to_dot"}

MainParseArgs ==
    \E a \in MainArgs :
        /\ pc = "start"
        /\ args' = a
        /\ pc' = "parsed"
        /\ SetGraph(G)
        /\ UNCHANGED <<last, log, pre, fargs, out, exit_code, made>>

\* main, lines 896-899: the root path does not exist.
MainRootMissing ==
    /\ pc = "parsed"
    /\ exit_code' = 1
    /\ pc' = "exit_root"
    /\ SetGraph(G)
    /\ UNCHANGED <<last, log, pre, fargs, out, args, made>>

\* main, lines 915-919: no project found.
MainNoProjects ==
    /\ pc = "parsed"
    /\ exit_code' = 0
    /\ pc' = "exit_none"
    /\ SetGraph(G)
    /\ UNCHANGED <<last, log, pre, fargs, out, args, made>>

\* main, line 921: graph = Graph()
MainNewGraph ==
    /\ pc = "parsed"
    /\ SetGraph(EmptyGraph)
    /\ pc' = "build"
    /\ UNCHANGED <<last, log, pre, fargs, out, args, exit_code, made>>

MainAddTarget == pc = "build" /\ AddTarget

MainAddLib ==
    \E c \in MainLibCalls :
        /\ pc = "build"
        /\ SetGraph(add_lib(G, c.name, c.subtitle, c.is_system, c.ext))
        /\ Called("add_lib")

MainAddEdge ==
    \E src \in SpecTargetNames, dst \in Names :
        /\ pc = "build"
        /\ Cardinality(add_edge(G, src, dst).edges) <= MaxMainEdges
        /\ SetGraph(add_edge(G, src, dst))
        /\ Called("add_edge")

MainApplyFilters ==
    /\ pc = "build"
    /\ \E eo \in Perms(edges) :
           SetGraph(apply_filters(G, main_filter_args(args), eo))
    /\ last' = "apply_filters"
    /\ made' = [made EXCEPT !.apply_filters = @ + 1]
    /\ pc' = "filtered"
    /\ UNCHANGED <<log, pre, fargs, out, args, exit_code>>

\* main, lines 959-972: highlight_cycles is set.
MainMarkCycles ==
    /\ pc = "filtered"
    /\ ~args.no_cycle_highlight
    /\ \E ad \in adjacency_orders(G) :
           \E wo \in neighbour_orders(DOMAIN ad.adj, ad.adj) :
               SetGraph(mark_cycles(G, ad, wo))
    /\ last' = "mark_cycles"
    /\ made' = [made EXCEPT !.mark_cycles = @ + 1]
    /\ pc' = "analysed"
    /\ UNCHANGED <<log, pre, fargs, out, args, exit_code>>

\* main, lines 973-974: --no-cycle-highlight, mark_cycles is not called.
MainSkipCycles ==
    /\ pc = "filtered"
    /\ args.no_cycle_highlight
    /\ pc' = "analysed"
    /\ SetGraph(G)
    /\ UNCHANGED <<last, log, pre, fargs, out, args, exit_code, made>>

\* main, lines 977-989: the cycles summary is written and exit_code is set.
MainExitCode ==
    /\ pc = "analysed"
    /\ last' = "export_cycles_summary"
    /\ out' = export_cycles_summary(cycle_components)
    /\ exit_code' = IF args.fail_on_cycles /\ cycle_components # <<>> THEN 2 ELSE 0
    /\ pc' = "json"
    /\ SetGraph(G)
    /\ UNCHANGED <<log, pre, fargs, args, made>>

\* main, lines 992-1004
MainExportJson ==
    /\ pc = "json"
    /\ IF args.json_out
       THEN last' = "export_json" /\ out' = export_json(G)
       ELSE UNCHANGED <<last, out>>
    /\ pc' = "split"
    /\ SetGraph(G)
    /\ UNCHANGED <<log, pre, fargs, args, exit_code, made>>

\* main, lines 1007-1022, the split options at their defaults.
MainExportSplit ==
    /\ pc = "split"
    /\ IF args.split_by_framework \/ args.split_only
       THEN \E lo \in Perms(lib_nodes) :
                /\ last' = "export_split_by_framework"
                /\ out' = export_split_by_framework(G, lo, ~args.no_cycle_highlight,
                                                    TRUE, FALSE, FALSE, 0, 1)
       ELSE UNCHANGED <<last, out>>
    /\ pc' = "dot"
    /\ SetGraph(G)
    /\ UNCHANGED <<log, pre, fargs, args, exit_code, made>>

\* main, lines 1025-1036
MainToDot ==
    /\ pc = "dot"
    /\ IF ~args.split_only
       THEN /\ last' = "to_dot"
            /\ out' = to_dot(G, ~args.no_cycle_highlight, TRUE).text
            /\ SetGraph(to_dot(G, ~args.no_cycle_highlight, TRUE).self)
       ELSE SetGraph(G) /\ UNCHANGED <<last, out>>
    /\ pc' = "summary"
    /\ UNCHANGED <<log, pre, fargs, args, exit_code, made>>

\* main, lines 1039-1051: sys.exit(exit_code)
MainExit ==
    /\ pc = "summary"
    /\ pc' = "exit"
    /\ SetGraph(G)
    /\ UNCHANGED <<last, log, pre, fargs, out, args, exit_code, made>>

NextMain ==
    \/ MainParseArgs \/ MainRootMissing \/ MainNoProjects \/ MainNewGraph
    \/ MainAddTarget \/ MainAddLib \/ MainAddEdge \/ MainApplyFilters
    \/ MainMarkCycles \/ MainSkipCycles \/ MainExitCode
    \/ MainExportJson \/ MainExportSplit \/ MainToDot \/ MainExit

SpecMain == Init /\ [][NextMain]_vars

-----------------------------------------------------------------------------
(* Claims on the nodes apply_filters keeps, under SpecFilter *)

\* C11: after apply_filters every name in lib_nodes is the `to` endpoint of a
\* surviving edge, whatever keep_isolated_included_targets is, and without
\* keep_isolated_included_targets every name in target_nodes is an endpoint of a
\* surviving edge.
C11_NoIsolatedNode ==
    last = "apply_filters" =>
        /\ \A l \in lib_nodes : \E e \in edges : e[2] = l
        /\ ~fargs.keep_isolated_included_targets =>
               \A t \in target_nodes : \E e \in edges : e[1] = t \/ e[2] = t

\* Filtered without keeping isolated targets: an allowed target with no surviving
\* edge and an allowed library with no surviving edge are gone, a linked library
\* stays.
C11_Witness ==
    /\ last = "apply_filters"
    /\ ~fargs.keep_isolated_included_targets
    /\ lib_nodes # {}
    /\ \E t \in pre.target_nodes \ target_nodes : target_allowed(fargs, t)
    /\ \E l \in pre.lib_nodes \ lib_nodes : LibAllowedBefore(l)

\* Exclusion precedence on a name: a name an exclude pattern matches is not
\* allowed; a name no exclude pattern matches is allowed iff the include list is
\* empty or an include pattern matches it.
ExclusionPrecedence(allowed, include, exclude, n) ==
    /\ match_any(exclude, n) => ~allowed
    /\ ~match_any(exclude, n) => (allowed <=> (include = <<>> \/ match_any(include, n)))

\* The suffix tests on library l of the graph before the call: its suffix key is in
\* the include suffixes, if there are any, and not in the exclude suffixes.
SuffixPasses(l) ==
    LET key == ext_key_of(pre.lib_meta, pre.annotations, l)
    IN /\ fargs.include_suffixes # {} =>
              \E s \in fargs.include_suffixes : Lower(s) = key
       /\ \A s \in fargs.exclude_suffixes : Lower(s) # key

\* C12 as stated: target_allowed and lib_allowed give exclusion precedence on the
\* name patterns alone: an excluded name is not allowed, a name that is not excluded
\* is allowed iff the include list is empty or matches it.
C12_ExclusionPrecedence_NamesOnly ==
    last = "apply_filters" =>
        /\ \A t \in Names :
               ExclusionPrecedence(target_allowed(fargs, t),
                                   fargs.include_targets, fargs.exclude_targets, t)
        /\ \A l \in pre.lib_nodes :
               ExclusionPrecedence(LibAllowedBefore(l),
                                   fargs.include_libs, fargs.exclude_libs, l)

\* C12 as amended: target_allowed gives exclusion precedence on the target
\* patterns; lib_allowed rejects a library an exclude pattern matches, and allows a
\* library no exclude pattern matches iff the include list is empty or matches it
\* and the suffix of the library passes the suffix tests.
C12_ExclusionPrecedence ==
    last = "apply_filters" =>
        /\ \A t \in Names :
               ExclusionPrecedence(target_allowed(fargs, t),
                                   fargs.include_targets, fargs.exclude_targets, t)
        /\ \A l \in pre.lib_nodes :
               /\ match_any(fargs.exclude_libs, l) => ~LibAllowedBefore(l)
               /\ ~match_any(fargs.exclude_libs, l) =>
                      (LibAllowedBefore(l) <=>
                           /\ fargs.include_libs = <<>> \/ match_any(fargs.include_libs, l)
                           /\ SuffixPasses(l))

\* A target that an include and an exclude pattern both match is not allowed, and a
\* library that no name pattern concerns is rejected for its suffix.
C12_Witness ==
    /\ last = "apply_filters"
    /\ \E t \in pre.target_nodes :
           /\ match_any(fargs.include_targets, t)
           /\ match_any(fargs.exclude_targets, t)
           /\ ~target_allowed(fargs, t)
    /\ \E l \in pre.lib_nodes :
           /\ fargs.include_libs = <<>> /\ fargs.exclude_libs = <<>>
           /\ ~SuffixPasses(l)
           /\ ~LibAllowedBefore(l)

-----------------------------------------------------------------------------
(* Claims on the methods called in any order, under Spec *)

\* C14: in every state the methods reach in any order, apply_filters after
\* mark_cycles included, cycle_edges is a subset of edges and cycle_nodes is a
\* subset of target_nodes \cup lib_nodes.
C14_CycleStateWithinGraph ==
    /\ cycle_edges \subseteq edges
    /\ cycle_nodes \subseteq target_nodes \cup lib_nodes

\* C20: in every state add_target, add_lib, add_edge and apply_filters reach,
\* target_nodes and lib_nodes are disjoint.
C20_DisjointNamespaces ==
    target_nodes \cap lib_nodes = {}

-----------------------------------------------------------------------------
(* SpecViews: a graph is built, mark_cycles runs once, then the queries and the
   views read it *)

ViewTargetNames == {"App", "Core"}

\* Two libraries whose names differ only in letter case.
ViewLibCalls ==
    {LibCall("LibA", None, TRUE, ".framework"),
     LibCall("liba", "http://repo", FALSE, None)}

ViewLibNames == {c.name : c \in ViewLibCalls}

BuilderOps == {"init", "add_target", "add_lib", "add_edge"}

QueryOps ==
    {"lib_in_degree", "targets_linking_lib", "libs_linked_by_targets",
     "to_dot", "to_dot_framework_view"}

SplitMaxChoices == {0, 1}

SplitMinDegreeChoices == {1, 2}

\* The history a query or an export leaves: its name and what it returned.
Returned(op, value) ==
    /\ last' = op
    /\ out' = value
    /\ UNCHANGED <<log, pre, fargs, args, exit_code, pc, made>>

ViewAddTarget == last \in BuilderOps /\ AddTarget

ViewAddLib ==
    \E c \in ViewLibCalls :
        /\ last \in BuilderOps
        /\ SetGraph(add_lib(G, c.name, c.subtitle, c.is_system, c.ext))
        /\ Called("add_lib")

ViewAddEdge ==
    \E src \in ViewTargetNames, dst \in ViewTargetNames \cup ViewLibNames :
        /\ last \in BuilderOps
        /\ Cardinality(add_edge(G, src, dst).edges) <= MaxViewEdges
        /\ SetGraph(add_edge(G, src, dst))
        /\ Called("add_edge")

ViewMarkCycles == last \in BuilderOps /\ MarkCycles

QueryLibInDegree ==
    \E lib \in ViewLibNames :
        /\ last = "mark_cycles"
        /\ SetGraph(G)
        /\ Returned("lib_in_degree", [lib |-> lib, value |-> lib_in_degree(G, lib)])

QueryTargetsLinkingLib ==
    \E lib \in ViewLibNames :
        /\ last = "mark_cycles"
        /\ SetGraph(G)
        /\ Returned("targets_linking_lib",
                    [lib |-> lib, value |-> targets_linking_lib(G, lib)])

QueryLibsLinkedByTargets ==
    \E targets \in SUBSET ViewTargetNames :
        /\ last = "mark_cycles"
        /\ SetGraph(G)
        /\ Returned("libs_linked_by_targets",
                    [targets |-> targets, value |-> libs_linked_by_targets(G, targets)])

ViewToDot ==
    \E hc \in BOOLEAN, sh \in BOOLEAN :
        /\ last = "mark_cycles"
        /\ SetGraph(to_dot(G, hc, sh).self)
        /\ Returned("to_dot",
                    [highlight_cycles |-> hc, system_highlight |-> sh,
                     text |-> to_dot(G, hc, sh).text])

\* A focused view of a library of the graph, the first after mark_cycles, or the
\* next after the view of another library, with the options of that view
\* (export_split_by_framework, lines 792-801, views the libraries of lib_nodes and
\* passes the same options for each).
ViewFramework ==
    \E lib \in lib_nodes, hc \in BOOLEAN, sh \in BOOLEAN,
       td \in BOOLEAN, pl \in BOOLEAN :
        /\ \/ last = "mark_cycles"
           \/ /\ last = "to_dot_framework_view"
              /\ out.framework # lib
              /\ <<out.highlight_cycles, out.system_highlight,
                   out.include_target_deps, out.include_peer_libs>> = <<hc, sh, td, pl>>
        /\ SetGraph(to_dot_framework_view(G, lib, hc, sh, td, pl).self)
        /\ Returned("to_dot_framework_view",
                    [framework |-> lib, highlight_cycles |-> hc, system_highlight |-> sh,
                     include_target_deps |-> td, include_peer_libs |-> pl,
                     text |-> to_dot_framework_view(G, lib, hc, sh, td, pl).text])

\* export_split_by_framework, graph.lib_nodes iterated in any order.
ViewExportSplit ==
    /\ last = "mark_cycles"
    /\ SetGraph(G)
    /\ \E lo \in Perms(lib_nodes), f \in BOOLEAN,
          smax \in SplitMaxChoices, smin \in SplitMinDegreeChoices :
           Returned("export_split_by_framework",
                    [split_max |-> smax, split_min_degree |-> smin,
                     written |-> export_split_by_framework(G, lo, f, f, f, f, smax, smin)])

NextViews ==
    \/ ViewAddTarget \/ ViewAddLib \/ ViewAddEdge \/ ViewMarkCycles
    \/ QueryLibInDegree \/ QueryTargetsLinkingLib \/ QueryLibsLinkedByTargets
    \/ ViewToDot \/ ViewFramework \/ ViewExportSplit

SpecViews == Init /\ [][NextViews]_vars

-----------------------------------------------------------------------------
(* Claims on the queries and the views, under SpecViews *)

\* The names of the nodes a section of a DOT text draws.
NodesDrawn(section) == {section[i].name : i \in 1..Len(section)}

\* The edges a section of a DOT text draws.
EdgesDrawn(section) == {<<section[i].from, section[i].to>> : i \in 1..Len(section)}

\* The focused view the last call returned shows its nodes and edges: the targets
\* T = targets_linking_lib(L), once each, and one edge t -> L per t in T; with
\* include_peer_libs the peers libs_linked_by_targets(T) \ {L} and exactly the edges
\* from T to a peer, else none; with include_target_deps exactly the edges with both
\* endpoints in T, else none.
ViewShowsExactly ==
    LET v == out.text
        L == out.framework
        T == targets_linking_lib(G, L)
        peers == libs_linked_by_targets(G, T) \ {L}
    IN /\ v.focus.name = L
       /\ NodesDrawn(v.targets) = T /\ Len(v.targets) = Cardinality(T)
       /\ EdgesDrawn(v.focus_edges) = {<<t, L>> : t \in T}
       /\ Len(v.focus_edges) = Cardinality(T)
       /\ IF out.include_peer_libs
          THEN /\ NodesDrawn(v.peers) = peers /\ Len(v.peers) = Cardinality(peers)
               /\ EdgesDrawn(v.peer_edges) = {e \in edges : e[1] \in T /\ e[2] \in peers}
               /\ Len(v.peer_edges) = Cardinality(EdgesDrawn(v.peer_edges))
          ELSE v.peers = <<>> /\ v.peer_edges = <<>>
       /\ IF out.include_target_deps
          THEN /\ EdgesDrawn(v.target_edges) = {e \in edges : e[1] \in T /\ e[2] \in T}
               /\ Len(v.target_edges) = Cardinality(EdgesDrawn(v.target_edges))
          ELSE v.target_edges = <<>>

\* Every node and every edge of the focused view the last call returned is drawn as
\* cyclic exactly when highlighted(n) holds of a node n in cycle_nodes, resp. of an
\* edge in cycle_edges.
ViewCyclicWhen(highlighted) ==
    LET v == out.text
        nodes == <<v.focus>> \o v.targets \o v.peers
        drawn == v.focus_edges \o v.target_edges \o v.peer_edges
    IN /\ \A i \in 1..Len(nodes) :
              nodes[i].style = "cycle" <=> (nodes[i].name \in cycle_nodes /\ highlighted)
       /\ \A i \in 1..Len(drawn) :
              drawn[i].style = "cycle" <=>
                  (<<drawn[i].from, drawn[i].to>> \in cycle_edges /\ highlighted)

\* C16 as stated: to_dot_framework_view(L) shows exactly the targets linking L with
\* one edge each, the peers and their edges when include_peer_libs is set, the
\* target-to-target edges within T when include_target_deps is set, and draws a node
\* or an edge as cyclic exactly when it is in cycle_nodes / cycle_edges.
C16_FocusedView_AnyHighlight ==
    last = "to_dot_framework_view" => (ViewShowsExactly /\ ViewCyclicWhen(TRUE))

\* C16 as amended: the same nodes and edges, and a node or an edge is drawn as cyclic
\* exactly when highlight_cycles is set and it is in cycle_nodes / cycle_edges.
C16_FocusedView ==
    last = "to_dot_framework_view" =>
        (ViewShowsExactly /\ ViewCyclicWhen(out.highlight_cycles))

\* A highlighted view with peers and target-to-target edges: a target in a cycle, a
\* peer library and an edge drawn as cyclic.
C16_Witness ==
    /\ last = "to_dot_framework_view"
    /\ out.highlight_cycles /\ out.include_peer_libs /\ out.include_target_deps
    /\ out.text.peers # <<>>
    /\ \E i \in 1..Len(out.text.targets) : out.text.targets[i].style = "cycle"
    /\ \E i \in 1..Len(out.text.target_edges) : out.text.target_edges[i].style = "cycle"

\* C17: the libraries export_split_by_framework gives a view do not depend on the
\* order in which lib_nodes is iterated; they are in descending lib_in_degree, then
\* ascending lower-cased name; with split_min_degree > 1 each has at least that
\* in-degree; with split_max > 0 there are at most split_max of them.
C17_SplitOrderDeterministic ==
    last = "export_split_by_framework" =>
        LET libs == out.written.libs
        IN /\ \A lo \in Perms(lib_nodes) :
                  libs_sorted(G, lo, out.split_max, out.split_min_degree) = libs
           /\ \A i \in 1..Len(libs), j \in 1..Len(libs) :
                  i < j => ~split_key_less(G, libs[j], libs[i])
           /\ out.split_min_degree > 1 =>
                  \A i \in 1..Len(libs) : lib_in_degree(G, libs[i]) >= out.split_min_degree
           /\ out.split_max > 0 => Len(libs) <= out.split_max

\* C18: lib_in_degree, targets_linking_lib, libs_linked_by_targets, to_dot and
\* to_dot_framework_view leave every field of the Graph as it was.
C18_QueriesLeaveGraphUnchanged ==
    [][last' \in QueryOps => G' = G]_vars

\* The view of a library with a subtitle has been made of a graph that holds both
\* libraries and in which mark_cycles found a cycle.
C18_Witness ==
    /\ last = "to_dot_framework_view"
    /\ cycle_components # <<>>
    /\ out.framework \in DOMAIN annotations
    /\ ViewLibNames \subseteq lib_nodes

\* C19: lib_in_degree(lib) is the number of distinct targets with an edge into lib,
\* which is the cardinality of targets_linking_lib(lib), and the value the query
\* returns; for targets {App, Core} and edges App -> LibA, Core -> LibA, App -> Core
\* it is 2.
C19_InDegreeCountsTargets ==
    /\ \A lib \in ViewLibNames \cup ViewTargetNames :
           /\ lib_in_degree(G, lib) = Cardinality({t \in target_nodes : <<t, lib>> \in edges})
           /\ lib_in_degree(G, lib) = Cardinality(targets_linking_lib(G, lib))
    /\ last = "lib_in_degree" => out.value = Cardinality(targets_linking_lib(G, out.lib))
    /\ (/\ target_nodes = {"App", "Core"}
        /\ edges = {<<"App", "LibA">>, <<"Core", "LibA">>, <<"App", "Core">>})
           => lib_in_degree(G, "LibA") = 2

\* lib_in_degree("LibA") has returned 2 on the graph of targets {App, Core} and edges
\* App -> LibA, Core -> LibA, App -> Core.
C19_Witness ==
    /\ last = "lib_in_degree"
    /\ out = [lib |-> "LibA", value |-> 2]
    /\ target_nodes = {"App", "Core"}
    /\ "LibA" \in lib_nodes
    /\ edges = {<<"App", "LibA">>, <<"Core", "LibA">>, <<"App", "Core">>}

-----------------------------------------------------------------------------
(* Claims on main, under SpecMain *)

\* C13: in a run of main that builds a graph the stages come in order: the builder
\* calls, then exactly one apply_filters, then exactly one mark_cycles, then only
\* exports; after mark_cycles has returned no field of the graph changes, and the
\* run ends with one call of each made.
C13_StageOrder ==
    [][/\ last' \in {"add_target", "add_lib", "add_edge"} =>
              made' = [apply_filters |-> 0, mark_cycles |-> 0]
       /\ made'.apply_filters # made.apply_filters =>
              made = [apply_filters |-> 0, mark_cycles |-> 0] /\ made'.apply_filters = 1
       /\ made'.mark_cycles # made.mark_cycles =>
              made = [apply_filters |-> 1, mark_cycles |-> 0] /\ made'.mark_cycles = 1
       /\ last' \in ExportOps => made = [apply_filters |-> 1, mark_cycles |-> 1]
       /\ made.mark_cycles = 1 => G' = G
       /\ pc' = "exit" => made' = [apply_filters |-> 1, mark_cycles |-> 1]]_vars

\* The graph has a cycle: a strongly connected component of more than one node, or a
\* self-loop.
HasCycle ==
    \E v \in AllNodes : Cardinality(SCC(v)) > 1 \/ <<v, v>> \in edges

\* C15: a run that reaches the end exits with code 2 when --fail-on-cycles is given
\* and the filtered graph has a cycle, whatever the other options, and with code 0
\* otherwise.
C15_ExitCode ==
    pc = "exit" => exit_code = (IF args.fail_on_cycles /\ HasCycle THEN 2 ELSE 0)

-----------------------------------------------------------------------------
(* Claim on add_edge, under SpecBuild *)

\* The graph as it was before the last logged call.
BeforeLastCall == Replay(EmptyGraph, SubSeq(log, 1, Len(log) - 1))

\* C21: add_edge with an empty or None src or dst leaves the whole graph as it was;
\* with two non-empty names it adds the pair (src, dst) to edges and changes no
\* other field, so it registers no node.
C21_AddEdgeEffect ==
    (Len(log) >= 1 /\ log[Len(log)].op = "add_edge") =>
        LET c == log[Len(log)]
        IN IF c.src \in {None, ""} \/ c.dst \in {None, ""}
           THEN G = BeforeLastCall
           ELSE /\ edges = BeforeLastCall.edges \cup {<<c.src, c.dst>>}
                /\ [G EXCEPT !.edges = {}] = [BeforeLastCall EXCEPT !.edges = {}]

\* add_edge("App", "LibA") has added its pair to a graph without nodes, and an
\* add_edge with an empty or None name has followed and changed nothing.
C21_Witness ==
    /\ Len(log) >= 2
    /\ log[Len(log)].op = "add_edge"
    /\ log[Len(log)].src \in {None, ""} \/ log[Len(log)].dst \in {None, ""}
    /\ edges = {<<"App", "LibA">>}
    /\ target_nodes = {} /\ lib_nodes = {}

-----------------------------------------------------------------------------
(* Claims on the metadata apply_filters leaves, under SpecFilter *)

\* The suffix sets of the last apply_filters, lower-cased as the call compares them.
IncSuffixes == {Lower(s) : s \in fargs.include_suffixes}

ExcSuffixes == {Lower(s) : s \in fargs.exclude_suffixes}

\* The edges into library l that the name patterns let through.
EdgesIntoAllowedByName(l) ==
    {e \in pre.edges :
        /\ e[2] = l
        /\ e[1] \in pre.target_nodes => target_allowed(fargs, e[1])
        /\ l \in pre.target_nodes => target_allowed(fargs, l)
        /\ lib_name_allowed(fargs, l)}

-----------------------------------------------------------------------------
(* Claim on the library dictionaries, under Spec *)

\* C23: after any sequence of add_target, add_lib, add_edge, apply_filters and
\* mark_cycles the keys of lib_meta are exactly lib_nodes, the keys of annotations
\* are among lib_nodes, and every library's metadata record holds an is_system flag.
C23_LibDictsFollowLibNodes ==
    /\ DOMAIN lib_meta = lib_nodes
    /\ DOMAIN annotations \subseteq lib_nodes
    /\ \A l \in lib_nodes : lib_meta[l].is_system \in BOOLEAN

\* apply_filters has just dropped every library but LibA, which keeps its subtitle
\* and its metadata, while Core is left as a target only.
C23_Witness ==
    /\ last = "apply_filters"
    /\ lib_nodes = {"LibA"}
    /\ DOMAIN annotations = {"LibA"}
    /\ DOMAIN lib_meta = {"LibA"}
    /\ "Core" \in target_nodes

-----------------------------------------------------------------------------
(* Claim on applying the filters twice, under SpecFilter *)

\* C24: apply_filters only shrinks the graph, the edges, target_nodes and lib_nodes
\* it leaves being subsets of the ones before the call; and it is idempotent: a
\* second call with the same arguments, whatever order it visits the edges in,
\* leaves target_nodes, lib_nodes, edges, annotations and lib_meta as the first
\* call left them.
C24_ShrinksAndIdempotent ==
    last = "apply_filters" =>
        /\ edges \subseteq pre.edges
        /\ target_nodes \subseteq pre.target_nodes
        /\ lib_nodes \subseteq pre.lib_nodes
        /\ \A eo \in Perms(edges) : Built(apply_filters(G, fargs, eo)) = Built(G)

\* A filter that dropped an edge and a library and kept another library, whose ext
\* it inferred from the URL subtitle: the second call meets the stored ext "spm".
C24_Witness ==
    /\ last = "apply_filters"
    /\ edges # {} /\ edges # pre.edges
    /\ lib_nodes # pre.lib_nodes
    /\ "LibA" \in lib_nodes
    /\ pre.lib_meta["LibA"].ext = None
    /\ lib_meta["LibA"].ext = "spm"

====
